---- MODULE Spec2Model ----
(***************************************************************************)
(* The LinguaCraft Express backend: seven HTTP endpoints, each validating  *)
(* its JSON body with the flow's Zod input schema and then running one     *)
(* Genkit flow (prompt rendering, model call, output fallback).            *)
(*                                                                         *)
(* JavaScript values are tagged records [k, v]: k is the typeof-like kind  *)
(* and v the payload.  A string is a sequence of one-character strings, a  *)
(* string array a sequence of such sequences.                              *)
(***************************************************************************)
EXTENDS Integers, Sequences, FiniteSets, TLC

VARIABLES inv

vars == <<inv>>

(***************************************************************************)
(* Bounds of the model.                                                    *)
(***************************************************************************)
\* longest request text / word the model enumerates
MaxLen == 3
\* number of request slots (in-flight invocations) the state holds
MaxConc == 2

Ids == 1..MaxConc

(***************************************************************************)
(* JavaScript values.                                                      *)
(***************************************************************************)
Str(s) == [k |-> "string", v |-> s]
Arr(l) == [k |-> "array", v |-> l]
Num(d) == [k |-> "number", v |-> d]
Undefined == [k |-> "undefined", v |-> <<>>]
\* the prompt's output when the model produced nothing parseable
Null == [kind |-> "null"]

IsString(x) == x.k = "string"
IsNumber(x) == x.k = "number"
IsStringArray(x) == x.k = "array"

\* JavaScript truthiness of a field value: undefined and "" are falsy,
\* arrays (even empty) and non-zero numbers are truthy.
Truthy(x) ==
  CASE x.k = "undefined" -> FALSE
    [] x.k = "string" -> x.v # <<>>
    [] x.k = "number" -> x.v # <<"0">>
    [] OTHER -> TRUE

\* a || b
OrElse(a, b) == IF Truthy(a) THEN a ELSE b

(***************************************************************************)
(* Strings.                                                                *)
(***************************************************************************)
\* characters the model draws request texts from: whitespace, a lower-case
\* and an upper-case letter, a punctuation mark the word cleaner lists and
\* one it does not list.
Alphabet == {" ", "a", "A", "!", "-"}

Whitespace == {" "}

RECURSIVE WordsOfLen(_)
WordsOfLen(n) ==
  IF n = 0 THEN {<<>>}
  ELSE {Append(w, c) : w \in WordsOfLen(n - 1), c \in Alphabet}

Words == UNION {WordsOfLen(n) : n \in 0..MaxLen}

RECURSIVE TrimStart(_)
TrimStart(s) ==
  IF s # <<>> /\ Head(s) \in Whitespace THEN TrimStart(Tail(s)) ELSE s

RECURSIVE TrimEnd(_)
TrimEnd(s) ==
  IF s # <<>> /\ s[Len(s)] \in Whitespace
  THEN TrimEnd(SubSeq(s, 1, Len(s) - 1))
  ELSE s

\* String.prototype.trim
Trim(s) == TrimEnd(TrimStart(s))

\* String.prototype.toLowerCase
LowerChar(c) == IF c = "A" THEN "a" ELSE c
ToLowerCase(s) == [n \in 1..Len(s) |-> LowerChar(s[n])]

\* the character class of the word cleaner: . , ! ? ; : " and the curly
\* quotes and full-width parentheses (named by code point)
CleanedChars ==
  {".", ",", "!", "?", ";", ":", "\"", "U+201C", "U+201D", "U+FF08", "U+FF09"}

IsClean(c) == c \notin CleanedChars

\* word.replace(/[.,!?;:"...]/g, "")
StripCleanedChars(s) == SelectSeq(s, IsClean)

\* input.word.replace(...).trim().toLowerCase()
CleanWord(s) == ToLowerCase(Trim(StripCleanedChars(s)))

(***************************************************************************)
(* Requests.  A request body is modelled with one record shape for all     *)
(* endpoints: text is the endpoint's text-like field (text, sourceText,    *)
(* word or audioDataUri), src its sourceLanguage or language, tgt its      *)
(* targetLanguage; fields an endpoint does not declare stay Undefined.     *)
(***************************************************************************)
Flows ==
  {"translate-text", "text-to-speech", "speech-to-text", "get-word-details",
   "get-alternative-translations", "enhance-text", "suggest-correction"}

\* z.enum(['en', 'en-US', 'vi'])
LanguageEnum == {"en", "en-US", "vi"}

\* SupportedLanguagesSchema of text-to-speech
SupportedLanguages == {"en", "en-US", "vi", "ko", "es", "fr", "de", "ja"}

\* z.string().min(1) / .max(1000) of TextToSpeechInputSchema.text
MinTtsText == 1
MaxTtsText == 1000

\* .default(3) of GetAlternativeTranslationsInputSchema.count
DefaultCount == 3

Digits == <<"0", "1", "2", "3", "4", "5", "6", "7", "8", "9">>
NumOf(n) == Num(<<Digits[n + 1]>>)

Body(text, src, tgt, instruction, count) ==
  [text |-> text, src |-> src, tgt |-> tgt, instruction |-> instruction,
   count |-> count]

\* values a request may carry in a text-like field: every string up to
\* MaxLen, a missing field and a wrongly typed one
TextInputs == {Str(w) : w \in Words} \cup {Undefined, NumOf(7)}
InstructionInputs == {Str(<<>>), Str(<<" ">>), Str(<<"a">>), Undefined}
SourceLanguageInputs == {Str(<<"en">>), Str(<<"vi">>), Str(<<"fr">>), Str(<<"xx">>)}
TargetLanguageInputs == {Str(<<"en">>), Str(<<"vi">>), Str(<<"fr">>)}
CountInputs == {Undefined, NumOf(5), Str(<<"5">>)}

\* texts at and just past the longest text text-to-speech accepts
Repeat(c, n) == [j \in 1..n |-> c]
LongTextInputs == {Str(Repeat("a", MaxTtsText)), Str(Repeat("a", MaxTtsText + 1))}

\* the bodies a client may post to an endpoint
Bodies(f) ==
  CASE f \in {"translate-text", "speech-to-text"} ->
         {Body(t, s, g, Undefined, Undefined) :
            t \in TextInputs, s \in SourceLanguageInputs, g \in TargetLanguageInputs}
    [] f = "get-alternative-translations" ->
         {Body(t, s, Str(<<"vi">>), Undefined, c) :
            t \in TextInputs, s \in SourceLanguageInputs, c \in CountInputs}
    [] f = "enhance-text" ->
         {Body(t, s, Undefined, n, Undefined) :
            t \in TextInputs, s \in {Str(<<"en">>), Str(<<"fr">>)}, n \in InstructionInputs}
    [] f = "text-to-speech" ->
         {Body(t, s, Undefined, Undefined, Undefined) :
            t \in TextInputs \cup LongTextInputs, s \in SourceLanguageInputs}
    [] OTHER ->
         {Body(t, s, Undefined, Undefined, Undefined) :
            t \in TextInputs, s \in SourceLanguageInputs}

InEnum(x, E) == IsString(x) /\ Len(x.v) = 1 /\ x.v[1] \in E

TextToSpeechInputNoMax(b) ==
  /\ IsString(b.text)
  /\ Len(b.text.v) >= MinTtsText
  /\ InEnum(b.src, SupportedLanguages)
\* TextToSpeechInputSchema
TextToSpeechInputOK(b) ==
  /\ IsString(b.text)
  /\ Len(b.text.v) >= MinTtsText
  /\ Len(b.text.v) <= MaxTtsText
  /\ InEnum(b.src, SupportedLanguages)

\* Zod's safeParse(...).success for each endpoint's input schema
SchemaOK(f, b) ==
  CASE f = "translate-text" ->
         IsString(b.text) /\ InEnum(b.src, LanguageEnum) /\ InEnum(b.tgt, LanguageEnum)
    [] f = "speech-to-text" ->
         IsString(b.text) /\ InEnum(b.src, LanguageEnum) /\ InEnum(b.tgt, LanguageEnum)
    [] f = "get-alternative-translations" ->
         /\ IsString(b.text)
         /\ InEnum(b.src, LanguageEnum)
         /\ InEnum(b.tgt, LanguageEnum)
         /\ (b.count = Undefined \/ IsNumber(b.count))
    [] f = "suggest-correction" -> IsString(b.text) /\ InEnum(b.src, LanguageEnum)
    [] f = "get-word-details" -> IsString(b.text) /\ InEnum(b.src, LanguageEnum)
    [] f = "enhance-text" ->
         IsString(b.text) /\ InEnum(b.src, LanguageEnum) /\ IsString(b.instruction)
    [] f = "text-to-speech" -> TextToSpeechInputOK(b)

ParsedDataNoDefault(f, b) == b
\* safeParse(...).data: the body with declared defaults filled in
ParsedData(f, b) ==
  IF f = "get-alternative-translations" /\ b.count = Undefined
  THEN [b EXCEPT !.count = NumOf(DefaultCount)]
  ELSE b

(***************************************************************************)
(* What a flow handler does next: return a value, throw, or await a call   *)
(* to the model service.                                                   *)
(***************************************************************************)
Return(v) == [op |-> "return", value |-> v]
Throw(e) == [op |-> "throw", error |-> e]
Call(api, input) == [op |-> "call", api |-> api, input |-> input]

\* message of the exception a rejected model call raises
ModelErrorMessage == <<"model call failed">>

(***************************************************************************)
(* translate-text                                                          *)
(***************************************************************************)
TranslateTextOutput(t) == [kind |-> "object", translatedText |-> t]

\* TranslateTextOutputSchema
TranslateTextOutputOK(o) == o.kind = "object" /\ IsString(o.translatedText)

\* translateTextFlow up to its await
TranslateTextStart(input) == Call("translateTextPrompt", input)

\* translateTextFlow after its await: return output!
TranslateTextAfter(input, output) == Return(output)

(***************************************************************************)
(* get-alternative-translations                                            *)
(***************************************************************************)
AlternativesOutput(a) == [kind |-> "object", alternatives |-> a]

\* GetAlternativeTranslationsOutputSchema
AlternativesOutputOK(o) == o.kind = "object" /\ IsStringArray(o.alternatives)

AlternativesStartNoGuard(input) == Call("getAlternativeTranslationsPrompt", input)
\* getAlternativeTranslationsFlow up to its await
AlternativesStart(input) ==
  IF Trim(input.text.v) = <<>>
  THEN Return(AlternativesOutput(Arr(<<>>)))
  ELSE Call("getAlternativeTranslationsPrompt", input)

\* getAlternativeTranslationsFlow after its await: output || {alternatives: []}
AlternativesAfter(input, output) ==
  Return(IF output # Null THEN output ELSE AlternativesOutput(Arr(<<>>)))

(***************************************************************************)
(* suggest-correction                                                      *)
(***************************************************************************)
CorrectionOutput(t) == [kind |-> "object", correctedText |-> t]

\* SuggestCorrectionOutputSchema
CorrectionOutputOK(o) == o.kind = "object" /\ IsString(o.correctedText)

CorrectionStartNoGuard(input) == Call("suggestCorrectionPrompt", input)
\* suggestCorrectionFlow up to its await
CorrectionStart(input) ==
  IF Trim(input.text.v) = <<>>
  THEN Return(CorrectionOutput(Str(<<>>)))
  ELSE Call("suggestCorrectionPrompt", input)

CorrectionAfterEmptyFallback(input, output) ==
  IF output # Null /\ IsString(output.correctedText)
  THEN Return(output)
  ELSE Return(CorrectionOutput(Str(<<>>)))
\* suggestCorrectionFlow after its await
CorrectionAfter(input, output) ==
  IF output # Null /\ IsString(output.correctedText)
  THEN Return(output)
  ELSE Return(CorrectionOutput(input.text))

(***************************************************************************)
(* enhance-text                                                            *)
(***************************************************************************)
EnhanceOutput(t) == [kind |-> "object", enhancedText |-> t]

\* EnhanceTextOutputSchema
EnhanceOutputOK(o) == o.kind = "object" /\ IsString(o.enhancedText)

EnhanceStartTextOnly(input) ==
  IF Trim(input.text.v) = <<>>
  THEN Return(EnhanceOutput(input.text))
  ELSE Call("enhanceTextWithInstructionPrompt", input)
\* enhanceTextFlow up to its first await
EnhanceStart(input) ==
  IF Trim(input.text.v) = <<>> \/ Trim(input.instruction.v) = <<>>
  THEN Return(EnhanceOutput(input.text))
  ELSE Call("enhanceTextWithInstructionPrompt", input)

EnhanceAfterAlwaysFallback(input, output) == Call("generate", input)
\* enhanceTextFlow between its first and its second await
EnhanceAfter(input, output) ==
  IF output # Null /\ IsString(output.enhancedText)
  THEN Return(EnhanceOutput(Str(Trim(output.enhancedText.v))))
  ELSE Call("generate", input)

\* genResponse.text?.trim()
TextResponse(genResponse) ==
  IF IsString(genResponse.text) THEN Str(Trim(genResponse.text.v)) ELSE Undefined

EnhanceAfterGenerateNoFallback(input, genResponse) ==
  IF IsString(genResponse.text)
  THEN Return(EnhanceOutput(TextResponse(genResponse)))
  ELSE Return(EnhanceOutput(input.text))
\* enhanceTextFlow after its second await
EnhanceAfterGenerate(input, genResponse) ==
  IF Truthy(TextResponse(genResponse))
  THEN Return(EnhanceOutput(TextResponse(genResponse)))
  ELSE Return(EnhanceOutput(input.text))

(***************************************************************************)
(* get-word-details                                                        *)
(***************************************************************************)
WordDetails(w, t, m, s, a) ==
  [kind |-> "object", definedWord |-> w, type |-> t, meaning |-> m,
   synonyms |-> s, antonyms |-> a]

\* GetWordDetailsOutputSchema
WordDetailsOutputOK(o) ==
  /\ o.kind = "object"
  /\ IsString(o.definedWord)
  /\ IsString(o.type)
  /\ IsString(o.meaning)
  /\ IsStringArray(o.synonyms)
  /\ IsStringArray(o.antonyms)

NoWordMeaning == Str(<<"No word provided or word is only punctuation.">>)
NoDetailsMeaning == Str(<<"Could not retrieve details for this word.">>)

\* const cleanedWord = input.word.replace(...).trim().toLowerCase()
CleanedWord(input) == Str(CleanWord(input.text.v))

WordDetailsStartRaw(input) ==
  IF ~Truthy(CleanedWord(input))
  THEN Return(WordDetails(input.text, Str(<<>>), NoWordMeaning, Arr(<<>>), Arr(<<>>)))
  ELSE Call("getWordDetailsPrompt", input)
WordDetailsStartEcho(input) ==
  IF ~Truthy(CleanedWord(input))
  THEN Return(WordDetails(CleanedWord(input), Str(<<>>), NoWordMeaning, Arr(<<>>), Arr(<<>>)))
  ELSE Call("getWordDetailsPrompt", [input EXCEPT !.text = CleanedWord(input)])
\* getWordDetailsFlow up to its await
WordDetailsStart(input) ==
  IF ~Truthy(CleanedWord(input))
  THEN Return(WordDetails(input.text, Str(<<>>), NoWordMeaning, Arr(<<>>), Arr(<<>>)))
  ELSE Call("getWordDetailsPrompt", [input EXCEPT !.text = CleanedWord(input)])

WordDetailsAfterRawWord(input, output) ==
  IF output # Null
  THEN Return(WordDetails(OrElse(output.definedWord, input.text),
                          OrElse(output.type, Str(<<>>)),
                          OrElse(output.meaning, Str(<<>>)),
                          OrElse(output.synonyms, Arr(<<>>)),
                          OrElse(output.antonyms, Arr(<<>>))))
  ELSE Return(WordDetails(input.text, Str(<<>>), NoDetailsMeaning,
                          Arr(<<>>), Arr(<<>>)))
WordDetailsAfterMeaning(input, output) ==
  IF output # Null
  THEN Return(WordDetails(OrElse(output.definedWord, CleanedWord(input)),
                          OrElse(output.type, Str(<<>>)),
                          OrElse(output.meaning, NoDetailsMeaning),
                          OrElse(output.synonyms, Arr(<<>>)),
                          OrElse(output.antonyms, Arr(<<>>))))
  ELSE Return(WordDetails(CleanedWord(input), Str(<<>>), NoDetailsMeaning,
                          Arr(<<>>), Arr(<<>>)))
\* getWordDetailsFlow after its await
WordDetailsAfter(input, output) ==
  IF output # Null
  THEN Return(WordDetails(OrElse(output.definedWord, CleanedWord(input)),
                          OrElse(output.type, Str(<<>>)),
                          OrElse(output.meaning, Str(<<>>)),
                          OrElse(output.synonyms, Arr(<<>>)),
                          OrElse(output.antonyms, Arr(<<>>))))
  ELSE Return(WordDetails(CleanedWord(input), Str(<<>>), NoDetailsMeaning,
                          Arr(<<>>), Arr(<<>>)))

(***************************************************************************)
(* speech-to-text                                                          *)
(***************************************************************************)
SpeechOutput(t, r) == [kind |-> "object", transcription |-> t, translation |-> r]

\* SpeechToTextOutputSchema
SpeechOutputOK(o) ==
  o.kind = "object" /\ IsString(o.transcription) /\ IsString(o.translation)

\* speechToTextFlow up to its await
SpeechStart(input) == Call("speechToTextPrompt", input)

\* speechToTextFlow after its await: return output!
SpeechAfter(input, output) == Return(output)

(***************************************************************************)
(* text-to-speech.  The model's response is modelled by the content parts  *)
(* of its message (each with the media content type and url it carries),   *)
(* its finishReason and the first raw candidate's finishReason and         *)
(* finishMessage.                                                          *)
(***************************************************************************)
TtsOutput(u) == [kind |-> "object", audioDataUri |-> u]

\* TextToSpeechOutputSchema
TtsOutputOK(o) == o.kind = "object" /\ IsString(o.audioDataUri)

Part(contentType, url) == [contentType |-> contentType, url |-> url]

\* part.media && part.media.contentType?.startsWith('audio/')
IsAudioPart(p) == p.contentType \in {"audio/wav", "audio/mpeg"}

FindAnyPart(content, n) == IF n > Len(content) THEN 0 ELSE n
\* response.message?.content.find(...): index of the first audio part, or 0
RECURSIVE FindAudio(_, _)
FindAudio(content, n) ==
  IF n > Len(content) THEN 0
  ELSE IF IsAudioPart(content[n]) THEN n
  ELSE FindAudio(content, n + 1)

\* the catch block of textToSpeechFlow: every error raised inside the try,
\* the flow's own included, is rethrown wrapped
TtsRethrow(name, message) ==
  IF name = "GoogleGenerativeAIError"
  THEN Throw(<<"[GoogleGenerativeAI Error]: Failed to generate speech. Details: ">> \o message)
  ELSE Throw(<<"Error calling Genkit for Text-to-Speech: ">> \o message)

\* textToSpeech: the guard of the exported wrapper, then textToSpeechFlow up
\* to its await
TtsStart(input) ==
  IF Trim(input.text.v) = <<>>
  THEN Throw(<<"Input text cannot be empty.">>)
  ELSE Call("generate-tts", input)

\* textToSpeechFlow after its await
TtsAfter(input, response) ==
  IF response.kind = "error" THEN TtsRethrow(response.name, ModelErrorMessage)
  ELSE
    LET n == FindAudio(response.content, 1) IN
    IF n = 0 \/ ~Truthy(response.content[n].url)
    THEN IF /\ response.rawFinishReason \notin {"none", "STOP"}
            /\ Truthy(response.rawFinishMessage)
         THEN TtsRethrow("Error", <<"TTS model failed: ">> \o response.rawFinishMessage.v)
         ELSE IF response.finishReason \notin {"undefined", "stop"}
         THEN TtsRethrow("Error", <<"TTS model generation failed. Reason: ",
                                    response.finishReason>>)
         ELSE TtsRethrow("Error",
                <<"Failed to convert text to speech. No audio data URI received from model.">>)
    ELSE Return(TtsOutput(response.content[n].url))

(***************************************************************************)
(* The model service: what a call may come back with.                      *)
(***************************************************************************)
Failure(name) == [kind |-> "error", name |-> name]
Failures == {Failure("Error"), Failure("GoogleGenerativeAIError")}

StringReplies == {Undefined, NumOf(7), Str(<<>>), Str(<<"b">>), Str(<<" ", "b", " ">>)}
ShortStringReplies == {Undefined, Str(<<>>), Str(<<"n">>)}
ArrayReplies == {Undefined, Arr(<<>>), Arr(<<<<"b">>>>)}

AudioUrl == Str(<<"data:audio/wav;base64,AAAA">>)
OtherUrl == Str(<<"data:audio/wav;base64,BBBB">>)
TtsContents ==
  {<<>>,
   <<Part("audio/wav", AudioUrl)>>,
   <<Part("none", Undefined), Part("audio/mpeg", AudioUrl)>>,
   <<Part("image/png", OtherUrl)>>,
   <<Part("audio/wav", Undefined), Part("audio/wav", AudioUrl)>>,
   <<Part("audio/wav", AudioUrl), Part("audio/wav", OtherUrl)>>}

TtsResponses ==
  [kind : {"object"},
   content : TtsContents,
   finishReason : {"undefined", "stop", "length"},
   rawFinishReason : {"none", "STOP", "SAFETY"},
   rawFinishMessage : {Undefined, Str(<<"blocked">>)}]

Replies(api) ==
  Failures \cup
  CASE api = "translateTextPrompt" ->
         {Null} \cup {TranslateTextOutput(t) : t \in StringReplies}
    [] api = "getAlternativeTranslationsPrompt" ->
         {Null} \cup {AlternativesOutput(a) : a \in ArrayReplies}
    [] api = "suggestCorrectionPrompt" ->
         {Null} \cup {CorrectionOutput(t) : t \in StringReplies}
    [] api = "enhanceTextWithInstructionPrompt" ->
         {Null} \cup {EnhanceOutput(t) : t \in StringReplies}
    [] api = "generate" ->
         {[kind |-> "object", text |-> t] :
            t \in {Undefined, Str(<<>>), Str(<<" ">>), Str(<<" ", "c", " ">>)}}
    [] api = "getWordDetailsPrompt" ->
         {Null} \cup
         {WordDetails(w, t, m, s, a) :
            w \in StringReplies, t \in ShortStringReplies, m \in ShortStringReplies,
            s \in ArrayReplies, a \in ArrayReplies}
    [] api = "speechToTextPrompt" ->
         {Null} \cup
         {SpeechOutput(t, r) : t \in ShortStringReplies, r \in ShortStringReplies}
    [] api = "generate-tts" -> TtsResponses

(***************************************************************************)
(* The flows behind the endpoints.                                         *)
(***************************************************************************)
\* the exported function an endpoint calls, up to its first await
FlowStart(f, input) ==
  CASE f = "translate-text" -> TranslateTextStart(input)
    [] f = "get-alternative-translations" -> AlternativesStart(input)
    [] f = "suggest-correction" -> CorrectionStart(input)
    [] f = "enhance-text" -> EnhanceStart(input)
    [] f = "get-word-details" -> WordDetailsStart(input)
    [] f = "speech-to-text" -> SpeechStart(input)
    [] f = "text-to-speech" -> TtsStart(input)

\* the flow from the n-th call's reply on; a rejected await throws
FlowAfter(f, input, n, reply) ==
  IF f = "text-to-speech" THEN TtsAfter(input, reply)
  ELSE IF reply.kind = "error" THEN Throw(ModelErrorMessage)
  ELSE CASE f = "translate-text" -> TranslateTextAfter(input, reply)
         [] f = "get-alternative-translations" -> AlternativesAfter(input, reply)
         [] f = "suggest-correction" -> CorrectionAfter(input, reply)
         [] f = "enhance-text" ->
              IF n = 1 THEN EnhanceAfter(input, reply)
              ELSE EnhanceAfterGenerate(input, reply)
         [] f = "get-word-details" -> WordDetailsAfter(input, reply)
         [] f = "speech-to-text" -> SpeechAfter(input, reply)

\* the outputSchema each flow is defined with
OutputOK(f, o) ==
  CASE f = "translate-text" -> TranslateTextOutputOK(o)
    [] f = "get-alternative-translations" -> AlternativesOutputOK(o)
    [] f = "suggest-correction" -> CorrectionOutputOK(o)
    [] f = "enhance-text" -> EnhanceOutputOK(o)
    [] f = "get-word-details" -> WordDetailsOutputOK(o)
    [] f = "speech-to-text" -> SpeechOutputOK(o)
    [] f = "text-to-speech" -> TtsOutputOK(o)

(***************************************************************************)
(* The server.  Each slot of inv is one HTTP request being served:         *)
(*   pc      "idle", "awaiting" (suspended on a model call) or "done"      *)
(*   flow    the endpoint posted to                                        *)
(*   body    the posted JSON body                                          *)
(*   sent    the model calls issued so far, oldest first                   *)
(*   replies what those calls came back with                               *)
(*   status  the HTTP status of the response (0 while there is none)       *)
(*   resp    the JSON body of the response                                 *)
(***************************************************************************)
Idle ==
  [pc |-> "idle", flow |-> "none", body |-> Undefined, sent |-> <<>>,
   replies |-> <<>>, status |-> 0, resp |-> Undefined]

\* { error: <message>, details: <details> }
HttpError(message, details) ==
  [kind |-> "error", error |-> message, details |-> details]

\* parsedInput.error.format()
ZodErrorFormat == <<"_errors">>

\* error.toString()
ErrorToString(message) == <<"Error: ">> \o message

\* message of the error Genkit raises when a flow's return value does not
\* match the outputSchema the flow is defined with
OutputSchemaError == <<"Schema validation failed.">>

ContinueThrowAsBadRequest(r, step) ==
  CASE step.op = "call" ->
         [r EXCEPT !.pc = "awaiting", !.sent = Append(@, step)]
    [] step.op = "throw" ->
         [r EXCEPT !.pc = "done", !.status = 400,
                   !.resp = HttpError(step.error, ErrorToString(step.error))]
    [] step.op = "return" ->
         IF OutputOK(r.flow, step.value)
         THEN [r EXCEPT !.pc = "done", !.status = 200, !.resp = step.value]
         ELSE [r EXCEPT !.pc = "done", !.status = 500,
                        !.resp = HttpError(OutputSchemaError,
                                           ErrorToString(OutputSchemaError))]
\* the route handler from a step of the flow to its next suspension or to
\* the response: res.json(result), or the catch block's status 500
Continue(r, step) ==
  CASE step.op = "call" ->
         [r EXCEPT !.pc = "awaiting", !.sent = Append(@, step)]
    [] step.op = "throw" ->
         [r EXCEPT !.pc = "done", !.status = 500,
                   !.resp = HttpError(step.error, ErrorToString(step.error))]
    [] step.op = "return" ->
         IF OutputOK(r.flow, step.value)
         THEN [r EXCEPT !.pc = "done", !.status = 200, !.resp = step.value]
         ELSE [r EXCEPT !.pc = "done", !.status = 500,
                        !.resp = HttpError(OutputSchemaError,
                                           ErrorToString(OutputSchemaError))]

RouteNoValidation(f, b) ==
  Continue([Idle EXCEPT !.flow = f, !.body = b], FlowStart(f, ParsedData(f, b)))
\* app.post(...): safeParse the body, answer 400 when it fails, otherwise
\* call the flow with the parsed data
Route(f, b) ==
  LET r == [Idle EXCEPT !.flow = f, !.body = b] IN
  IF ~SchemaOK(f, b)
  THEN [r EXCEPT !.pc = "done", !.status = 400,
                 !.resp = HttpError(<<"Invalid input for ", f>>, ZodErrorFormat)]
  ELSE Continue(r, FlowStart(f, ParsedData(f, b)))

\* the handler resumed by the reply to its pending model call
Resume(r, reply) ==
  LET got == [r EXCEPT !.replies = Append(@, reply)] IN
  Continue(got, FlowAfter(r.flow, ParsedData(r.flow, r.body), Len(r.sent), reply))

\* a client posts body b to endpoint f
Post(i) ==
  /\ inv[i].pc = "idle"
  /\ \E f \in Flows : \E b \in Bodies(f) :
       inv' = [inv EXCEPT ![i] = Route(f, b)]

\* the model service answers, or rejects, the pending call of request i
ModelReplies(i) ==
  /\ inv[i].pc = "awaiting"
  /\ \E reply \in Replies(inv[i].sent[Len(inv[i].sent)].api) :
       inv' = [inv EXCEPT ![i] = Resume(inv[i], reply)]

\* the response has been written; the slot serves the next request
Close(i) ==
  /\ inv[i].pc = "done"
  /\ inv' = [inv EXCEPT ![i] = Idle]

Init == inv = [i \in Ids |-> Idle]

\* requests served one at a time
Next ==
  \/ Post(1)
  \/ ModelReplies(1)
  \/ Close(1)

Spec == Init /\ [][Next]_vars

(***************************************************************************)
(* Concurrent requests.  Express starts a handler for every request it     *)
(* receives; a handler suspended on its model call lets the others run, so *)
(* the handlers of all slots interleave at their awaits.  The requests and *)
(* replies are drawn from a few representatives of each kind.              *)
(***************************************************************************)
ConcFlows == {"translate-text", "get-word-details", "enhance-text"}

ConcBodies(f) ==
  CASE f = "translate-text" ->
         {Body(Str(<<"a">>), s, Str(<<"vi">>), Undefined, Undefined) :
            s \in {Str(<<"en">>), Str(<<"fr">>)}}
    [] f = "get-word-details" ->
         {Body(t, Str(<<"en">>), Undefined, Undefined, Undefined) :
            t \in {Str(<<"A", "!">>), Str(<<" ">>)}}
    [] f = "enhance-text" ->
         {Body(Str(<<"a">>), Str(<<"en">>), Undefined, Str(<<"a">>), Undefined)}

ConcReplies(api) ==
  CASE api = "translateTextPrompt" ->
         {Null, TranslateTextOutput(Str(<<"b">>)), Failure("Error")}
    [] api = "getWordDetailsPrompt" ->
         {Null, WordDetails(Str(<<>>), Str(<<"n">>), Undefined, Arr(<<>>), Undefined)}
    [] api = "enhanceTextWithInstructionPrompt" ->
         {Null, EnhanceOutput(Str(<<" ", "b", " ">>))}
    [] api = "generate" ->
         {[kind |-> "object", text |-> t] : t \in {Undefined, Str(<<" ", "c", " ">>)}}

\* a client posts to an endpoint while other requests may be in flight
ConcPost(i) ==
  /\ inv[i].pc = "idle"
  /\ \E f \in ConcFlows : \E b \in ConcBodies(f) :
       inv' = [inv EXCEPT ![i] = Route(f, b)]

ConcModelRepliesShared(i) ==
  /\ inv[i].pc = "awaiting"
  /\ \E reply \in ConcReplies(inv[i].sent[Len(inv[i].sent)].api) :
       inv' = [j \in Ids |->
                 IF /\ inv[j].pc = "awaiting"
                    /\ inv[j].sent[Len(inv[j].sent)] = inv[i].sent[Len(inv[i].sent)]
                 THEN Resume(inv[j], reply)
                 ELSE inv[j]]
\* the model service answers the pending call of request i
ConcModelReplies(i) ==
  /\ inv[i].pc = "awaiting"
  /\ \E reply \in ConcReplies(inv[i].sent[Len(inv[i].sent)].api) :
       inv' = [inv EXCEPT ![i] = Resume(inv[i], reply)]

NextConc ==
  \E i \in Ids :
    \/ ConcPost(i)
    \/ ConcModelReplies(i)
    \/ Close(i)

SpecConc == Init /\ [][NextConc]_vars

(***************************************************************************)
(* Properties.                                                             *)
(***************************************************************************)
\* the requests being served or answered
Active == {i \in Ids : inv[i].pc # "idle"}

\* the flows whose model reply is asked for in the flow's output shape
PromptFlows == Flows \ {"text-to-speech"}

IsBlank(s) == \A n \in 1..Len(s) : s[n] \in Whitespace

\* C1: on every endpoint a body that fails the endpoint's input schema is
\* answered with status 400 and an error object, and no model call is made
\* for it.
C1_InvalidInputRejected ==
  \A i \in Active :
    ~SchemaOK(inv[i].flow, inv[i].body) =>
      /\ inv[i].pc = "done"
      /\ inv[i].status = 400
      /\ inv[i].resp.kind = "error"
      /\ inv[i].sent = <<>>

C1_Witness ==
  \E i \in Active :
    /\ inv[i].flow = "translate-text"
    /\ inv[i].body.src = Str(<<"fr">>)
    /\ IsString(inv[i].body.text)
    /\ inv[i].status = 400

\* C2 as stated: every invocation of any flow makes at most one call to the
\* model service.
C2_AtMostOneCall == \A i \in Active : Len(inv[i].sent) <= 1

\* C2 amended: every flow but enhance-text makes at most one model call;
\* enhance-text makes at most two, the second only after the first returned a
\* reply without a string enhancedText; a rejected call is never followed by
\* another call and is answered at once with status 500.
C2_CallsBounded ==
  \A i \in Active :
    LET r == inv[i] IN
    /\ Len(r.sent) <= 2
    /\ r.flow # "enhance-text" => Len(r.sent) <= 1
    /\ Len(r.sent) = 2 =>
         /\ r.replies[1].kind # "error"
         /\ ~(r.replies[1] # Null /\ IsString(r.replies[1].enhancedText))
    /\ \A n \in 1..Len(r.replies) :
         r.replies[n].kind = "error" =>
           /\ n = Len(r.replies)
           /\ Len(r.sent) = n
           /\ r.pc = "done"
           /\ r.status = 500

C2_Witness ==
  \E i \in Active :
    /\ inv[i].flow = "enhance-text"
    /\ Len(inv[i].sent) = 2
    /\ inv[i].pc = "done"

\* C3: for every flow whose reply is asked for in the output shape, once the
\* model call has returned without an exception the request ends with a
\* result in which every declared output field is defined and typed, never
\* with an error, also when the reply is null or lacks fields.
C3_TotalAfterReply ==
  \A i \in Active :
    LET r == inv[i] IN
    ( /\ r.pc = "done"
      /\ r.flow \in PromptFlows
      /\ r.replies # <<>>
      /\ \A n \in 1..Len(r.replies) : r.replies[n].kind # "error" ) =>
        r.status = 200 /\ OutputOK(r.flow, r.resp)

C3_Witness ==
  \E i \in Active :
    /\ inv[i].flow = "translate-text"
    /\ inv[i].replies = <<Null>>
    /\ inv[i].pc = "done"

\* the flows with a primary text or word input field
TextFlows == Flows \ {"speech-to-text"}

\* the flows that return early on a blank text or word
GuardedFlows ==
  {"get-alternative-translations", "suggest-correction", "enhance-text",
   "get-word-details"}

\* the result a guarded flow returns for a blank text or word
TrivialResult(f, b) ==
  CASE f = "get-alternative-translations" -> AlternativesOutput(Arr(<<>>))
    [] f = "suggest-correction" -> CorrectionOutput(Str(<<>>))
    [] f = "enhance-text" -> EnhanceOutput(b.text)
    [] f = "get-word-details" ->
         WordDetails(b.text, Str(<<>>), NoWordMeaning, Arr(<<>>), Arr(<<>>))

\* C4 as stated: for every flow with a primary text or word field, a valid
\* request whose field is empty or whitespace-only makes no model call and is
\* answered with a (non-error) result.
C4_BlankTextSkipsModel ==
  \A i \in Active :
    LET r == inv[i] IN
    ( /\ r.flow \in TextFlows
      /\ SchemaOK(r.flow, r.body)
      /\ IsBlank(r.body.text.v) ) =>
        r.sent = <<>> /\ r.pc = "done" /\ r.status = 200

\* C4 amended: get-alternative-translations, suggest-correction, enhance-text
\* and get-word-details answer a blank text or word with their trivial result
\* and make no model call; translate-text has no such guard and sends the
\* blank text to the model; text-to-speech makes no model call either but
\* answers a whitespace-only text with an error (status 500).
C4_BlankTextByFlow ==
  \A i \in Active :
    LET r == inv[i] IN
    ( /\ r.flow \in TextFlows
      /\ SchemaOK(r.flow, r.body)
      /\ IsBlank(r.body.text.v) ) =>
        /\ r.flow \in GuardedFlows =>
             /\ r.sent = <<>>
             /\ r.pc = "done"
             /\ r.status = 200
             /\ r.resp = TrivialResult(r.flow, r.body)
        /\ r.flow = "translate-text" =>
             /\ Len(r.sent) = 1
             /\ r.sent[1].input.text = r.body.text
        /\ r.flow = "text-to-speech" =>
             /\ r.sent = <<>>
             /\ r.pc = "done"
             /\ r.status = 500
             /\ r.resp.kind = "error"

C4_Witness ==
  \E i \in Active :
    /\ inv[i].flow = "suggest-correction"
    /\ inv[i].body.text = Str(<<" ", " ">>)
    /\ inv[i].status = 200

\* C5: get-alternative-translations answers a valid request whose sourceText
\* is empty or whitespace-only with exactly {alternatives: []} and makes no
\* model call.
C5_EmptySourceText ==
  \A i \in Active :
    LET r == inv[i] IN
    ( /\ r.flow = "get-alternative-translations"
      /\ SchemaOK(r.flow, r.body)
      /\ IsBlank(r.body.text.v) ) =>
        /\ r.pc = "done"
        /\ r.status = 200
        /\ r.resp = AlternativesOutput(Arr(<<>>))
        /\ r.sent = <<>>

C5_Witness ==
  \E i \in Active :
    /\ inv[i].flow = "get-alternative-translations"
    /\ inv[i].body.text = Str(<<>>)
    /\ inv[i].status = 200

\* C6: enhance-text answers a valid request whose text is non-empty and
\* whose instruction is empty with {enhancedText: text}, the text unchanged,
\* and makes no model call.
C6_EmptyInstruction ==
  \A i \in Active :
    LET r == inv[i] IN
    ( /\ r.flow = "enhance-text"
      /\ SchemaOK(r.flow, r.body)
      /\ r.body.text.v # <<>>
      /\ r.body.instruction.v = <<>> ) =>
        /\ r.pc = "done"
        /\ r.status = 200
        /\ r.resp = EnhanceOutput(r.body.text)
        /\ r.sent = <<>>

C6_Witness ==
  \E i \in Active :
    /\ inv[i].flow = "enhance-text"
    /\ inv[i].body.text = Str(<<"A", "a">>)
    /\ inv[i].body.instruction = Str(<<>>)
    /\ inv[i].status = 200

\* punctuation marks and upper-case letters among the characters of Alphabet
PunctuationMarks == CleanedChars \cup {"-"}
UpperCase == {"A"}

\* the word get-word-details put into the prompt of request r
PromptWord(r) == r.sent[1].input.text.v

\* C7 as stated: the word get-word-details sends to the model has the input
\* word's surrounding punctuation and its casing stripped.
C7_PromptWordStripped ==
  \A i \in Active :
    (inv[i].flow = "get-word-details" /\ inv[i].sent # <<>>) =>
      LET w == PromptWord(inv[i]) IN
      /\ w # <<>>
      /\ Head(w) \notin PunctuationMarks
      /\ w[Len(w)] \notin PunctuationMarks
      /\ \A n \in 1..Len(w) : w[n] \notin UpperCase

\* C7 amended: the word sent to the model is the input word with every
\* occurrence (leading, trailing or inner) of . , ! ? ; : " and of the curly
\* quotes and full-width parentheses removed, then surrounding whitespace
\* removed, then lower-cased; other punctuation is kept.  It is never empty,
\* and it is always this cleaned word, not the raw input.
C7_PromptWordCleaned ==
  \A i \in Active :
    (inv[i].flow = "get-word-details" /\ inv[i].sent # <<>>) =>
      LET w == PromptWord(inv[i])
          raw == inv[i].body.text.v
          kept == SelectSeq(raw, LAMBDA c : c \notin CleanedChars)
      IN
      /\ w # <<>>
      /\ Head(w) \notin Whitespace
      /\ w[Len(w)] \notin Whitespace
      /\ \A n \in 1..Len(w) : w[n] \notin UpperCase \cup CleanedChars
      /\ \E m \in 0..Len(raw) : \E n \in 0..Len(raw) :
           /\ Len(kept) = m + Len(w) + n
           /\ \A j \in 1..Len(kept) :
                IF j <= m \/ j > m + Len(w)
                THEN kept[j] \in Whitespace
                ELSE w[j - m] = (IF kept[j] \in UpperCase THEN "a" ELSE kept[j])

C7_Witness ==
  \E i \in Active :
    /\ inv[i].flow = "get-word-details"
    /\ inv[i].body.text = Str(<<"A", "!">>)
    /\ inv[i].sent # <<>>
    /\ PromptWord(inv[i]) = <<"a">>

\* C8: when the input word consists only of whitespace and cleaned
\* punctuation (so that cleaning it leaves the empty string), get-word-details
\* makes no model call and answers with definedWord the original input word,
\* type "", the no-word meaning, and empty synonyms and antonyms.
C8_NoWordProvided ==
  \A i \in Active :
    LET r == inv[i] IN
    ( /\ r.flow = "get-word-details"
      /\ SchemaOK(r.flow, r.body)
      /\ \A n \in 1..Len(r.body.text.v) :
           r.body.text.v[n] \in Whitespace \cup CleanedChars ) =>
        /\ r.sent = <<>>
        /\ r.pc = "done"
        /\ r.status = 200
        /\ r.resp = WordDetails(r.body.text, Str(<<>>), NoWordMeaning,
                                Arr(<<>>), Arr(<<>>))

C8_Witness ==
  \E i \in Active :
    /\ inv[i].flow = "get-word-details"
    /\ inv[i].body.text = Str(<<" ", "!">>)
    /\ inv[i].status = 200
    /\ inv[i].resp.definedWord = Str(<<" ", "!">>)

\* C9: every successful speech-to-text request whose sourceLanguage equals
\* its targetLanguage is answered with translation equal to transcription,
\* whatever the model replied.
C9_SameLanguageEcho ==
  \A i \in Active :
    LET r == inv[i] IN
    ( /\ r.flow = "speech-to-text"
      /\ r.pc = "done"
      /\ r.status = 200
      /\ r.body.src = r.body.tgt ) =>
        r.resp.translation = r.resp.transcription

\* request r got one reply, and that reply has every declared output field
\* present and correctly typed
WellTypedReply(r) ==
  /\ r.flow \in PromptFlows
  /\ r.pc = "done"
  /\ Len(r.replies) = 1
  /\ r.replies[1].kind = "object"
  /\ OutputOK(r.flow, r.replies[1])

\* C10 as stated: for every flow a well-typed reply is returned unchanged,
\* field for field, and normalising the result again gives the same result.
C10_WellTypedUnchanged ==
  \A i \in Active :
    LET r == inv[i] IN
    WellTypedReply(r) =>
      /\ r.status = 200
      /\ r.resp = r.replies[1]
      /\ FlowAfter(r.flow, ParsedData(r.flow, r.body), 1, r.resp) = Return(r.resp)

\* C10 amended: translate-text, get-alternative-translations,
\* suggest-correction and speech-to-text return a well-typed reply unchanged;
\* enhance-text returns it with enhancedText stripped of surrounding
\* whitespace; get-word-details returns it with an empty definedWord replaced
\* by the cleaned input word; for each of them normalising the result again
\* gives the same result.
C10_WellTypedNormalised ==
  \A i \in Active :
    LET r == inv[i]
        reply == r.replies[1]
    IN
    WellTypedReply(r) =>
      /\ r.status = 200
      /\ r.flow \notin {"enhance-text", "get-word-details"} => r.resp = reply
      /\ r.flow = "enhance-text" =>
           r.resp = EnhanceOutput(Str(TrimEnd(TrimStart(reply.enhancedText.v))))
      /\ r.flow = "get-word-details" =>
           r.resp =
             IF reply.definedWord.v # <<>> THEN reply
             ELSE [reply EXCEPT
                     !.definedWord = Str(ToLowerCase(Trim(StripCleanedChars(r.body.text.v))))]
      /\ FlowAfter(r.flow, ParsedData(r.flow, r.body), 1, r.resp) = Return(r.resp)

C10_Witness ==
  \E i \in Active :
    /\ inv[i].flow = "get-word-details"
    /\ WellTypedReply(inv[i])
    /\ inv[i].replies[1].definedWord = Str(<<" ", "b", " ">>)
    /\ inv[i].replies[1].meaning = Str(<<>>)
    /\ inv[i].resp = inv[i].replies[1]

\* C11: text-to-speech answers a text longer than 1000 characters, and
\* likewise a text of length 0, with a validation error (status 400) before
\* any model call; a text of 1 to 1000 characters in a supported language
\* passes validation.
C11_TextLengthValidated ==
  \A i \in Active :
    LET r == inv[i] IN
    (r.flow = "text-to-speech" /\ IsString(r.body.text)) =>
      /\ (Len(r.body.text.v) > 1000 \/ Len(r.body.text.v) = 0) =>
           /\ r.pc = "done"
           /\ r.status = 400
           /\ r.sent = <<>>
      /\ ( /\ Len(r.body.text.v) \in 1..1000
           /\ r.body.src \in {Str(<<l>>) : l \in SupportedLanguages} ) =>
           r.status # 400

C11_Witness ==
  /\ \E i \in Active :
       /\ inv[i].flow = "text-to-speech"
       /\ Len(inv[i].body.text.v) = 1001
       /\ inv[i].body.src = Str(<<"fr">>)
       /\ inv[i].status = 400

\* a text of exactly 1000 characters is accepted and synthesised
C11_LongestAccepted ==
  \E i \in Active :
    /\ inv[i].flow = "text-to-speech"
    /\ Len(inv[i].body.text.v) = 1000
    /\ inv[i].status = 200

\* a text-to-speech request that got the model's response
TtsAnswered(r) ==
  /\ r.flow = "text-to-speech"
  /\ r.pc = "done"
  /\ Len(r.replies) = 1
  /\ r.replies[1].kind = "object"

HasAudioPart(content) ==
  \E n \in 1..Len(content) : content[n].contentType \in {"audio/wav", "audio/mpeg"}

\* the completion reason of a response is something other than a normal stop
AbnormalFinish(response) ==
  response.finishReason = "length" \/ response.rawFinishReason = "SAFETY"

\* C12 as stated: text-to-speech answers with an audioDataUri only when the
\* response holds an audio part and its completion reason is a normal stop;
\* without an audio part, or with another completion reason, it fails.
C12_AudioOnlyOnNormalStop ==
  \A i \in Active :
    LET r == inv[i] IN
    TtsAnswered(r) =>
      /\ r.status = 200 =>
           HasAudioPart(r.replies[1].content) /\ ~AbnormalFinish(r.replies[1])
      /\ (~HasAudioPart(r.replies[1].content) \/ AbnormalFinish(r.replies[1])) =>
           r.status = 500 /\ r.resp.kind = "error"

\* C12 amended: text-to-speech answers with an audioDataUri exactly when the
\* first content part whose media type is audio exists and carries a url,
\* and the audioDataUri is that url, whatever the completion reason;
\* otherwise it fails (status 500) with an error that carries the first raw
\* candidate's finish message when that candidate's finish reason is not STOP
\* and it has a message, else the response's finish reason when there is one
\* other than stop, else a plain no-audio message.
C12_AudioFromFirstAudioPart ==
  \A i \in Active :
    LET r == inv[i]
        response == r.replies[1]
        content == response.content
        firsts == {n \in 1..Len(content) :
                     /\ content[n].contentType \in {"audio/wav", "audio/mpeg"}
                     /\ \A m \in 1..(n - 1) :
                          content[m].contentType \notin {"audio/wav", "audio/mpeg"}}
        usable == {n \in firsts : IsString(content[n].url) /\ content[n].url.v # <<>>}
        prefix == <<"Error calling Genkit for Text-to-Speech: ">>
    IN
    TtsAnswered(r) =>
      /\ usable # {} =>
           /\ r.status = 200
           /\ \A n \in usable : r.resp = TtsOutput(content[n].url)
      /\ usable = {} =>
           /\ r.status = 500
           /\ r.resp.kind = "error"
           /\ r.resp.error =
                IF response.rawFinishReason = "SAFETY" /\ IsString(response.rawFinishMessage)
                THEN prefix \o <<"TTS model failed: ">> \o response.rawFinishMessage.v
                ELSE IF response.finishReason = "length"
                THEN prefix \o <<"TTS model generation failed. Reason: ", "length">>
                ELSE prefix \o
                     <<"Failed to convert text to speech. No audio data URI received from model.">>

C12_Witness ==
  \E i \in Active :
    /\ TtsAnswered(inv[i])
    /\ inv[i].replies[1].finishReason = "length"
    /\ inv[i].replies[1].rawFinishReason = "SAFETY"
    /\ inv[i].status = 200
    /\ inv[i].resp = TtsOutput(AudioUrl)

C14_CountDefault ==
  \A i \in Active :
    LET r == inv[i] IN
    (r.flow = "get-alternative-translations" /\ r.sent # <<>>) =>
      /\ r.body.count = Undefined => r.sent[1].input.count = Num(<<"3">>)
      /\ r.body.count # Undefined => r.sent[1].input.count = r.body.count
      /\ r.sent[1].input.text = r.body.text

C14_Witness ==
  \E i \in Active :
    /\ inv[i].flow = "get-alternative-translations"
    /\ inv[i].body.count = Undefined
    /\ inv[i].sent # <<>>
    /\ inv[i].sent[1].input.count = Num(<<"3">>)

\* a supplied count reaches the prompt
C14_SuppliedKept ==
  \E i \in Active :
    /\ inv[i].flow = "get-alternative-translations"
    /\ inv[i].body.count = Num(<<"5">>)
    /\ inv[i].sent # <<>>
    /\ inv[i].sent[1].input.count = Num(<<"5">>)

\* what a handler run alone makes of a request and the replies to its calls
RECURSIVE Replay(_, _, _)
Replay(f, b, replies) ==
  IF replies = <<>> THEN Route(f, b)
  ELSE Resume(Replay(f, b, SubSeq(replies, 1, Len(replies) - 1)),
              replies[Len(replies)])

\* every request's calls, status and response are what its own body and
\* its own replies give
C15_OwnInputOnly ==
  \A i \in Active : inv[i] = Replay(inv[i].flow, inv[i].body, inv[i].replies)

\* a step of one request leaves every other request as it was
C15_StepIsLocal ==
  \A i \in Ids : inv'[i] # inv[i] => \A j \in Ids \ {i} : inv'[j] = inv[j]

HasString(reply, field) == reply # Null /\ reply.kind = "object" /\ IsString(reply[field])

\* C16: enhance-text issues its secondary, unstructured generation call only
\* after the primary call returned a reply without a string enhancedText;
\* when the primary reply has a string enhancedText the result is that value
\* trimmed and no secondary call is made; when the secondary reply's trimmed
\* text is empty or absent the result is {enhancedText: <input text>}.
C16_EnhanceDualPath ==
  \A i \in Active :
    LET r == inv[i] IN
    r.flow = "enhance-text" =>
      /\ Len(r.sent) >= 2 =>
           /\ Len(r.sent) = 2
           /\ r.sent[1].api = "enhanceTextWithInstructionPrompt"
           /\ r.sent[2].api = "generate"
           /\ r.replies # <<>>
           /\ r.replies[1].kind # "error"
           /\ ~HasString(r.replies[1], "enhancedText")
      /\ (r.replies # <<>> /\ HasString(r.replies[1], "enhancedText")) =>
           /\ Len(r.sent) = 1
           /\ r.pc = "done"
           /\ r.status = 200
           /\ r.resp = EnhanceOutput(Str(Trim(r.replies[1].enhancedText.v)))
      /\ (Len(r.replies) = 2 /\ r.replies[2].kind = "object") =>
           /\ r.pc = "done"
           /\ r.status = 200
           /\ r.resp =
                IF IsString(r.replies[2].text) /\ ~IsBlank(r.replies[2].text.v)
                THEN EnhanceOutput(Str(Trim(r.replies[2].text.v)))
                ELSE EnhanceOutput(r.body.text)

C16_Witness ==
  \E i \in Active :
    /\ inv[i].flow = "enhance-text"
    /\ Len(inv[i].replies) = 2
    /\ inv[i].replies[1] = EnhanceOutput(NumOf(7))
    /\ inv[i].replies[2].kind = "object"
    /\ inv[i].replies[2].text = Str(<<" ">>)
    /\ inv[i].resp = EnhanceOutput(inv[i].body.text)

\* C17: suggest-correction answers a blank text with {correctedText: ""}
\* and makes no model call; for any other text it answers with
\* {correctedText: <input text>} when the reply is null or its correctedText
\* is not a string, and with the model's reply unchanged otherwise.
C17_CorrectionFallback ==
  \A i \in Active :
    LET r == inv[i] IN
    (r.flow = "suggest-correction" /\ SchemaOK(r.flow, r.body)) =>
      /\ IsBlank(r.body.text.v) =>
           /\ r.sent = <<>>
           /\ r.pc = "done"
           /\ r.status = 200
           /\ r.resp = CorrectionOutput(Str(<<>>))
      /\ ~IsBlank(r.body.text.v) =>
           /\ Len(r.sent) = 1
           /\ r.sent[1].input = r.body
           /\ (r.replies # <<>> /\ r.replies[1].kind # "error") =>
                /\ r.pc = "done"
                /\ r.status = 200
                /\ r.resp =
                     IF HasString(r.replies[1], "correctedText")
                     THEN r.replies[1]
                     ELSE CorrectionOutput(r.body.text)

C17_Witness ==
  \E i \in Active :
    /\ inv[i].flow = "suggest-correction"
    /\ inv[i].body.text = Str(<<"a", " ">>)
    /\ inv[i].replies = <<Null>>
    /\ inv[i].resp = CorrectionOutput(Str(<<"a", " ">>))

\* a reply field counts as supplied when it holds a value of its declared
\* type other than the empty string
Supplied(x) == (IsString(x) /\ x.v # <<>>) \/ IsStringArray(x)

\* the reply is an object whose fields are each absent or of their declared type
TypedOrAbsent(reply) ==
  /\ reply.kind = "object"
  /\ \A fld \in {"definedWord", "type", "meaning"} :
       reply[fld] = Undefined \/ IsString(reply[fld])
  /\ \A fld \in {"synonyms", "antonyms"} :
       reply[fld] = Undefined \/ IsStringArray(reply[fld])

\* C18: after a successful model call each get-word-details output field
\* is the model's value when supplied and otherwise its fallback (definedWord:
\* the cleaned input word; type, meaning: ""; synonyms, antonyms: []); a null
\* reply gives the cleaned word with the could-not-retrieve meaning; and every
\* returned result has a non-empty string definedWord unless the no-word
\* early return was taken with an empty input.
C18_WordDetailsFallback ==
  \A i \in Active :
    LET r == inv[i]
        cleaned == Str(ToLowerCase(Trim(StripCleanedChars(r.body.text.v))))
        pick(x, fallback) == IF Supplied(x) THEN x ELSE fallback
    IN
    (r.flow = "get-word-details" /\ r.pc = "done") =>
      /\ (r.replies # <<>> /\ r.replies[1] = Null) =>
           /\ r.status = 200
           /\ r.resp = WordDetails(cleaned, Str(<<>>), NoDetailsMeaning,
                                   Arr(<<>>), Arr(<<>>))
      /\ (r.replies # <<>> /\ TypedOrAbsent(r.replies[1])) =>
           /\ r.status = 200
           /\ r.resp = WordDetails(pick(r.replies[1].definedWord, cleaned),
                                   pick(r.replies[1].type, Str(<<>>)),
                                   pick(r.replies[1].meaning, Str(<<>>)),
                                   pick(r.replies[1].synonyms, Arr(<<>>)),
                                   pick(r.replies[1].antonyms, Arr(<<>>)))
      /\ r.status = 200 =>
           /\ IsString(r.resp.definedWord)
           /\ r.resp.definedWord.v = <<>> => (r.sent = <<>> /\ r.body.text.v = <<>>)

C18_Witness ==
  \E i \in Active :
    /\ inv[i].flow = "get-word-details"
    /\ inv[i].body.text = Str(<<"A", "!", " ">>)
    /\ inv[i].replies # <<>>
    /\ inv[i].replies[1] =
         WordDetails(Undefined, Str(<<"n">>), Undefined, Undefined, Arr(<<<<"b">>>>))
    /\ inv[i].resp =
         WordDetails(Str(<<"a">>), Str(<<"n">>), Str(<<>>), Arr(<<>>), Arr(<<<<"b">>>>))

====
